---------------------------- MODULE Spec2Model ----------------------------
(***************************************************************************)
(* Model of package gitlabserver (src/gitlabserver.go): the concurrent     *)
(* paginated fetch GitlabServer.Projects, the sequential cursor fetch      *)
(* GitlabServer.Groups, and the hierarchy helpers TopLevelGroups and       *)
(* ParentGroup.                                                            *)
(*                                                                         *)
(* Go strings are modelled as sequences of one-character strings, so that  *)
(* strconv.Atoi and strings.Split are computed, not assumed.               *)
(* A run-time panic (index out of range, nil dereference) in any goroutine *)
(* ends the whole process: `crashed`.                                      *)
(***************************************************************************)
EXTENDS Integers, Sequences, FiniteSets

\* ------------------------------------------------------------------ bounds
\* Largest number of pages a Projects call of the model plans.
MaxPages == 3
\* Largest number of items one page response carries in the model.
MaxPageItems == 2
\* Largest number of page requests one Groups call of the model makes.
MaxRequests == 3
\* Largest next-page index a ListGroups response of the model names.
MaxNextPage == 3
\* Largest number of groups handed to TopLevelGroups in the model.
MaxGroups == 3
\* Largest number of path segments after the host in a web URL of the model.
MaxSegments == 3

\* ------------------------------------------------------- program constants
ITEMS_PER_PAGE == 100

\* ------------------------------------------------------------ Go strings
Digits == <<"0", "1", "2", "3", "4", "5", "6", "7", "8", "9">>

IsDigit(c) == \E i \in 1..Len(Digits) : Digits[i] = c

DigitVal(c) == (CHOOSE i \in 1..Len(Digits) : Digits[i] = c) - 1

\* Value of a string of decimal digits, most significant first.
RECURSIVE DecimalValue(_)
DecimalValue(s) ==
    IF s = <<>> THEN 0
    ELSE 10 * DecimalValue(SubSeq(s, 1, Len(s) - 1)) + DigitVal(s[Len(s)])

\* strconv.Atoi: an optional sign followed by at least one decimal digit;
\* anything else is a *NumError.
Atoi(s) ==
    LET signed == s # <<>> /\ s[1] \in {"+", "-"}
        body   == IF signed THEN Tail(s) ELSE s
    IN  IF body = <<>> \/ \E i \in 1..Len(body) : ~IsDigit(body[i])
        THEN [ok |-> FALSE, val |-> 0]
        ELSE [ok |-> TRUE,
              val |-> IF signed /\ s[1] = "-" THEN 0 - DecimalValue(body)
                      ELSE DecimalValue(body)]

\* The decimal text the remote writes for a count n >= 0.
RECURSIVE Itoa(_)
Itoa(n) ==
    IF n < 10 THEN <<Digits[n + 1]>>
    ELSE Itoa(n \div 10) \o <<Digits[(n % 10) + 1]>>

\* ------------------------------------------------ the count request
\* Total counts the remote may report: the counts around each page boundary,
\* up to the first one that needs MaxPages pages.
TotalCounts ==
    {n \in 0..((MaxPages - 1) * ITEMS_PER_PAGE + 1) :
        n % ITEMS_PER_PAGE \in {0, 1, ITEMS_PER_PAGE - 1}}

\* Values of res.Header["X-Total"]: the slice of header values, empty when
\* the header is absent.
XTotalValues ==
    {<<Itoa(n)>> : n \in TotalCounts}
        \cup {<<>>, <<<<>>>>, <<<<"1", "x">>>>, <<<<"a", "b">>>>}

\* What client.Do hands back for the count request.
CountResponses ==
    {[err |-> TRUE, xtotal |-> <<>>]}
        \cup {[err |-> FALSE, xtotal |-> h] : h \in XTotalValues}

\* ProjectCount / GroupCount on a response: the transport error is returned;
\* indexing element 0 of an absent header panics; a text Atoi rejects is
\* returned as an error; otherwise the count.
CountResult(resp) ==
    IF resp.err THEN [kind |-> "err", count |-> 0]
    ELSE IF Len(resp.xtotal) = 0 THEN [kind |-> "panic", count |-> 0]
    ELSE LET a == Atoi(resp.xtotal[1])
         IN  IF a.ok THEN [kind |-> "ok", count |-> a.val]
             ELSE [kind |-> "err", count |-> 0]

\* The page count rounded down instead of up.
PagesToCheckFloor(n) == n \div ITEMS_PER_PAGE

\* int(math.Ceil(float64(n) / ITEMS_PER_PAGE)) for n >= 0.

PagesToCheck(n) ==
    IF n % ITEMS_PER_PAGE = 0 THEN n \div ITEMS_PER_PAGE
    ELSE (n \div ITEMS_PER_PAGE) + 1

\* ------------------------------------------------------------------ state
VARIABLES
    \* --- Projects
    pc,            \* position of the goroutine that called Projects
    countResp,     \* <<the response the count request got>>, <<>> before it
    projectCount,  \* projectCount
    pagesToCheck,  \* pagesToCheck
    page,          \* the loop variable page
    spawned,       \* the page arguments of the goroutines started, in order
    wg,            \* the WaitGroup counter
    mu,            \* the Mutex: 0 when unlocked, else the page of the
                   \* goroutine whose Lock went through
    projects,      \* the shared slice projects
    tpc,           \* position of each page goroutine
    p,             \* each page goroutine's p
    loaded,        \* the slice value a goroutine's append has read
    outcome,       \* what ListProjects returned to each page goroutine
    logged,        \* pages whose error line was printed
    ret,           \* the slice Projects returned
    retErr,        \* the error Projects returned
    crashed,       \* the process died of a panic
    \* --- Groups
    gpc,           \* position of the goroutine that called Groups
    gCountResp,    \* <<the response the count request got>>, <<>> before it
    groupCount,    \* groupCount
    listPage,      \* listGroupsOptions.Page
    groups,        \* the slice groups
    requests,      \* the ListGroups calls made so far and their answers
    gRet,          \* the slice Groups returned
    gRetErr,       \* the error Groups returned
    gCrashed,      \* the process died of a panic
    \* --- TopLevelGroups
    tlInput,       \* the FullPath of each group of the argument
    tlDone,        \* TopLevelGroups has returned
    tlResult,      \* the slice it returned
    \* --- ParentGroup
    pgParts,       \* the pieces the project's WebURL was written from
    pgOutcome,     \* "none", then "returned" or "panic"
    pgResult       \* the string it returned

projVars == <<pc, countResp, projectCount, pagesToCheck, page, spawned, wg, mu,
              projects, tpc, p, loaded, outcome, logged, ret, retErr, crashed>>

groupVars == <<gpc, gCountResp, groupCount, listPage, groups, requests, gRet,
               gRetErr, gCrashed>>

topVars == <<tlInput, tlDone, tlResult>>

parentVars == <<pgParts, pgOutcome, pgResult>>

vars == <<projVars, groupVars, topVars, parentVars>>

Pages == 1..MaxPages

\* The items a successful response for page k carries: n items of that page.
PageItems(k, n) == [i \in 1..n |-> <<k, i>>]

\* What Projects.ListProjects hands back: a page of items; or an error with
\* the HTTP response (a non-2xx status); or an error with a nil response
\* (the request never got an answer).
ListOutcomes == {"ok", "err_resp", "err_nil"}

InitProjects ==
    /\ pc = "start"
    /\ countResp = <<>>
    /\ projectCount = 0
    /\ pagesToCheck = 0
    /\ page = 0
    /\ spawned = <<>>
    /\ wg = 0
    /\ mu = 0
    /\ projects = <<>>
    /\ tpc = [t \in Pages |-> "unborn"]
    /\ p = [t \in Pages |-> <<>>]
    /\ loaded = [t \in Pages |-> <<>>]
    /\ outcome = [t \in Pages |-> "none"]
    /\ logged = {}
    /\ ret = <<>>
    /\ retErr = "none"
    /\ crashed = FALSE

\* ------------------------------------------------------- Projects: caller
\* projectCount, err := g.ProjectCount(); if err != nil { return nil, err }
CallProjectCount ==
    /\ pc = "start" /\ ~crashed
    /\ \E resp \in CountResponses :
         LET r == CountResult(resp)
         IN  /\ countResp' = <<resp>>
             /\ CASE r.kind = "panic" ->
                      /\ crashed' = TRUE
                      /\ UNCHANGED <<pc, projectCount, ret, retErr>>
                  [] r.kind = "err" ->
                      /\ pc' = "returned"
                      /\ ret' = <<>>
                      /\ retErr' = "error"
                      /\ UNCHANGED <<projectCount, crashed>>
                  [] OTHER ->
                      /\ pc' = "plan"
                      /\ projectCount' = r.count
                      /\ UNCHANGED <<ret, retErr, crashed>>
    /\ UNCHANGED <<pagesToCheck, page, spawned, wg, mu, projects, tpc, p,
                   loaded, outcome, logged>>

\* make, pagesToCheck, wg.Add(pagesToCheck), page := 1
Plan ==
    /\ pc = "plan" /\ ~crashed
    /\ projects' = <<>>
    /\ pagesToCheck' = PagesToCheck(projectCount)
    /\ wg' = wg + PagesToCheck(projectCount)
    /\ page' = 1
    /\ pc' = "spawn"
    /\ UNCHANGED <<countResp, projectCount, spawned, mu, tpc, p, loaded,
                   outcome, logged, ret, retErr, crashed>>

\* The loop condition page < pagesToCheck+1.
LoopContinues(pg, n) == pg < n + 1

\* One iteration of the loop: go func(wg, page){...}(&wg, page); page++
Spawn ==
    /\ pc = "spawn" /\ ~crashed
    /\ LoopContinues(page, pagesToCheck)
    /\ page \in Pages
    /\ tpc' = [tpc EXCEPT ![page] = "list"]
    /\ spawned' = Append(spawned, page)
    /\ page' = page + 1
    /\ UNCHANGED <<pc, countResp, projectCount, pagesToCheck, wg, mu, projects,
                   p, loaded, outcome, logged, ret, retErr, crashed>>

\* The loop ends; the caller reaches wg.Wait().
LoopExit ==
    /\ pc = "spawn" /\ ~crashed
    /\ ~LoopContinues(page, pagesToCheck)
    /\ pc' = "wait"
    /\ UNCHANGED <<countResp, projectCount, pagesToCheck, page, spawned, wg, mu,
                   projects, tpc, p, loaded, outcome, logged, ret, retErr,
                   crashed>>

\* A caller that does not wait for the counter.
WaitPassesAlways == TRUE

\* wg.Wait() lets the caller through when the counter is zero.

WaitPasses == wg = 0

\* wg.Wait(); return projects, nil
WaitAndReturn ==
    /\ pc = "wait" /\ ~crashed
    /\ WaitPasses
    /\ pc' = "returned"
    /\ ret' = projects
    /\ retErr' = "nil"
    /\ UNCHANGED <<countResp, projectCount, pagesToCheck, page, spawned, wg, mu,
                   projects, tpc, p, loaded, outcome, logged, crashed>>

\* ----------------------------------------------- Projects: page goroutine
\* p, resp, err := ListProjects(opt); if err != nil { Printf(.. resp.Status) }
\* With a nil resp the Printf argument resp.Status is a nil dereference.
ListProjects(t) ==
    /\ tpc[t] = "list" /\ ~crashed
    /\ \E o \in ListOutcomes, n \in 0..MaxPageItems :
         /\ o # "ok" => n = 0
         /\ outcome' = [outcome EXCEPT ![t] = o]
         /\ p' = [p EXCEPT ![t] = PageItems(t, n)]
         /\ logged' = IF o = "err_resp" THEN logged \cup {t} ELSE logged
         /\ tpc' = [tpc EXCEPT ![t] = IF o = "err_nil" THEN "panicking"
                                      ELSE "lock"]
    /\ UNCHANGED <<pc, countResp, projectCount, pagesToCheck, page, spawned, wg,
                   mu, projects, loaded, ret, retErr, crashed>>

\* An append section entered without regard to the mutex.
LockFreeIgnored == TRUE

\* mu.Lock() returns only when the mutex is free.

LockFree == mu = 0

\* mu.Lock()
Lock(t) ==
    /\ tpc[t] = "lock" /\ ~crashed
    /\ LockFree
    /\ mu' = t
    /\ tpc' = [tpc EXCEPT ![t] = "append"]
    /\ UNCHANGED <<pc, countResp, projectCount, pagesToCheck, page, spawned, wg,
                   projects, p, loaded, outcome, logged, ret, retErr, crashed>>

\* projects = append(projects, p...): the read of the slice header ...
AppendLoad(t) ==
    /\ tpc[t] = "append" /\ ~crashed
    /\ loaded' = [loaded EXCEPT ![t] = projects]
    /\ tpc' = [tpc EXCEPT ![t] = "store"]
    /\ UNCHANGED <<pc, countResp, projectCount, pagesToCheck, page, spawned, wg,
                   mu, projects, p, outcome, logged, ret, retErr, crashed>>

\* ... and the write of the grown slice back to projects.
AppendStore(t) ==
    /\ tpc[t] = "store" /\ ~crashed
    /\ projects' = loaded[t] \o p[t]
    /\ tpc' = [tpc EXCEPT ![t] = "unlock"]
    /\ UNCHANGED <<pc, countResp, projectCount, pagesToCheck, page, spawned, wg,
                   mu, p, loaded, outcome, logged, ret, retErr, crashed>>

\* A goroutine that leaves the append section without releasing the mutex.
UnlockForgotten(t) ==
    /\ tpc[t] = "unlock" /\ ~crashed
    /\ tpc' = [tpc EXCEPT ![t] = "deferred"]
    /\ UNCHANGED <<pc, countResp, projectCount, pagesToCheck, page, spawned, wg,
                   mu, projects, p, loaded, outcome, logged, ret, retErr,
                   crashed>>

\* mu.Unlock()
Unlock(t) ==
    /\ tpc[t] = "unlock" /\ ~crashed
    /\ mu' = 0
    /\ tpc' = [tpc EXCEPT ![t] = "deferred"]
    /\ UNCHANGED <<pc, countResp, projectCount, pagesToCheck, page, spawned, wg,
                   projects, p, loaded, outcome, logged, ret, retErr, crashed>>

\* defer wg.Done(): runs when the goroutine function returns, and also while
\* a panic unwinds it.
Done(t) ==
    /\ tpc[t] \in {"deferred", "panicking"} /\ ~crashed
    /\ wg' = wg - 1
    /\ tpc' = [tpc EXCEPT ![t] = IF tpc[t] = "panicking" THEN "dying"
                                 ELSE "done"]
    /\ UNCHANGED <<pc, countResp, projectCount, pagesToCheck, page, spawned, mu,
                   projects, p, loaded, outcome, logged, ret, retErr, crashed>>

\* The unrecovered panic reaches the top of the goroutine: the process exits.
Crash(t) ==
    /\ tpc[t] = "dying" /\ ~crashed
    /\ crashed' = TRUE
    /\ UNCHANGED <<pc, countResp, projectCount, pagesToCheck, page, spawned, wg,
                   mu, projects, tpc, p, loaded, outcome, logged, ret, retErr>>

\* ------------------------------------------------------------------ Groups
\* The count responses a Groups call of the model meets: groupCount only
\* sizes the slice's capacity.
GroupCountResponses ==
    {r \in CountResponses :
        r.err \/ r.xtotal \in {<<>>, <<<<"1", "x">>>>, <<Itoa(0)>>,
                               <<Itoa(ITEMS_PER_PAGE + 1)>>}}

InitGroups ==
    /\ gpc = "start"
    /\ gCountResp = <<>>
    /\ groupCount = 0
    /\ listPage = 0
    /\ groups = <<>>
    /\ requests = <<>>
    /\ gRet = <<>>
    /\ gRetErr = "none"
    /\ gCrashed = FALSE

\* groupCount, err := g.GroupCount(); if err != nil { return nil, err };
\* groups := make(..); listGroupsOptions := {Page: 1}
CallGroupCount ==
    /\ gpc = "start" /\ ~gCrashed
    /\ \E resp \in GroupCountResponses :
         LET r == CountResult(resp)
         IN  /\ gCountResp' = <<resp>>
             /\ CASE r.kind = "panic" ->
                      /\ gCrashed' = TRUE
                      /\ UNCHANGED <<gpc, groupCount, listPage, gRet, gRetErr>>
                  [] r.kind = "err" ->
                      /\ gpc' = "returned"
                      /\ gRet' = <<>>
                      /\ gRetErr' = "error"
                      /\ UNCHANGED <<groupCount, listPage, gCrashed>>
                  [] OTHER ->
                      /\ gpc' = "loop"
                      /\ groupCount' = r.count
                      /\ listPage' = 1
                      /\ UNCHANGED <<gRet, gRetErr, gCrashed>>
    /\ UNCHANGED <<groups, requests>>

\* if resp.NextPage == 0 { break }
IsLastPage(next) == next = 0

\* A loop that counts pages up instead of following the cursor.
FollowingPageSuccessor(cur, next) == cur + 1

\* listGroupsOptions.Page = resp.NextPage

FollowingPage(cur, next) == next

\* One iteration of the for loop: ListGroups(listGroupsOptions), the error
\* return, the append, and the break (followed by return groups, nil) or the
\* move to resp.NextPage.
GroupsIteration ==
    /\ gpc = "loop" /\ ~gCrashed
    /\ Len(requests) < MaxRequests
    /\ \E failed \in BOOLEAN, n \in 0..MaxPageItems, next \in 0..MaxNextPage :
         /\ failed => (n = 0 /\ next = 0)
         /\ requests' = Append(requests,
                [page |-> listPage, err |-> failed,
                 items |-> PageItems(listPage, n), next |-> next])
         /\ IF failed
            THEN /\ gpc' = "returned"
                 /\ gRet' = <<>>
                 /\ gRetErr' = "error"
                 /\ UNCHANGED <<groups, listPage>>
            ELSE /\ groups' = groups \o PageItems(listPage, n)
                 /\ IF IsLastPage(next)
                    THEN /\ gpc' = "returned"
                         /\ gRet' = groups'
                         /\ gRetErr' = "nil"
                         /\ UNCHANGED listPage
                    ELSE /\ listPage' = FollowingPage(listPage, next)
                         /\ UNCHANGED <<gpc, gRet, gRetErr>>
    /\ UNCHANGED <<gCountResp, groupCount, gCrashed>>

\* ------------------------------------------------------- strings.Split
\* strings.Index: the position of the first occurrence of sep in s, 0 if none.
Index(s, sep) ==
    LET hits == {i \in 1..(Len(s) - Len(sep) + 1) :
                    SubSeq(s, i, i + Len(sep) - 1) = sep}
    IN  IF hits = {} THEN 0
        ELSE CHOOSE i \in hits : \A j \in hits : i <= j

\* strings.Split: s cut at every occurrence of sep, left to right; an empty
\* sep cuts s into its characters.
RECURSIVE Split(_, _)
Split(s, sep) ==
    IF sep = <<>> THEN [i \in 1..Len(s) |-> <<s[i]>>]
    ELSE LET i == Index(s, sep)
         IN  IF i = 0 THEN <<s>>
             ELSE <<SubSeq(s, 1, i - 1)>>
                      \o Split(SubSeq(s, i + Len(sep), Len(s)), sep)

\* slices.Contains
Contains(list, x) == \E i \in 1..Len(list) : list[i] = x

\* g.client.BaseURL().Host
Host == <<"h", "o", "s", "t">>

Slash == <<"/">>

\* ---------------------------------------------------------- TopLevelGroups
GroupA == <<"A">>
GroupB == <<"B">>

\* Full paths of groups: relative ("A/x"), and written with the host in
\* front ("host/A/x").
FullPaths ==
    LET rel == {GroupA, GroupA \o Slash \o <<"x">>, GroupA \o Slash \o <<"y">>,
                GroupB \o Slash \o <<"z">>}
    IN  rel \cup {Host \o Slash \o r : r \in rel}

\* fullPath := strings.Split(group.FullPath, Host);
\* topLevelGroup := strings.Split(fullPath[0], "/"); topLevelGroup[0]
TopLevelOf(fullPath) == Split(Split(fullPath, Host)[1], Slash)[1]

\* The range loop of TopLevelGroups over the groups' full paths.
RECURSIVE TopLevelGroups(_)
TopLevelGroups(paths) ==
    IF paths = <<>> THEN <<>>
    ELSE LET sofar == TopLevelGroups(SubSeq(paths, 1, Len(paths) - 1))
             top   == TopLevelOf(paths[Len(paths)])
         IN  IF ~Contains(sofar, top) THEN Append(sofar, top) ELSE sofar

InitTopLevelGroups ==
    /\ tlInput \in UNION {[1..n -> FullPaths] : n \in 0..MaxGroups}
    /\ tlDone = FALSE
    /\ tlResult = <<>>

CallTopLevelGroups ==
    /\ ~tlDone
    /\ tlResult' = TopLevelGroups(tlInput)
    /\ tlDone' = TRUE
    /\ UNCHANGED tlInput

\* ------------------------------------------------------------- ParentGroup
Schemes == {<<"h", "t", "t", "p", "s", ":", "/", "/">>, <<>>}

UrlHosts == {Host, <<"o", "t", "h", "e", "r">>}

Segments == {<<"G", "r", "o", "u", "p", "A">>,
             <<"p", "r", "o", "j", "e", "c", "t", "1">>,
             <<"s", "u", "b">>, <<>>}

\* A web URL: scheme, host, and each path segment behind a "/".
RECURSIVE PathOf(_)
PathOf(segs) ==
    IF segs = <<>> THEN <<>>
    ELSE Slash \o Head(segs) \o PathOf(Tail(segs))

WebURL(parts) == parts.scheme \o parts.host \o PathOf(parts.segs)

UrlParts ==
    {[scheme |-> s, host |-> h, segs |-> g] :
        s \in Schemes, h \in UrlHosts,
        g \in UNION {[1..n -> Segments] : n \in 0..MaxSegments}}

\* fullPath := strings.Split(p.WebURL, Host);
\* parentgroup := strings.Split(fullPath[1], "/"); return parentgroup[1]
\* An index past the end of either slice panics.
ParentGroup(url) ==
    LET fullPath == Split(url, Host)
    IN  IF Len(fullPath) < 2 THEN [panic |-> TRUE, val |-> <<>>]
        ELSE LET parentgroup == Split(fullPath[2], Slash)
             IN  IF Len(parentgroup) < 2 THEN [panic |-> TRUE, val |-> <<>>]
                 ELSE [panic |-> FALSE, val |-> parentgroup[2]]

InitParentGroup ==
    /\ pgParts \in UrlParts
    /\ pgOutcome = "none"
    /\ pgResult = <<>>

CallParentGroup ==
    /\ pgOutcome = "none"
    /\ LET r == ParentGroup(WebURL(pgParts))
       IN  /\ pgOutcome' = IF r.panic THEN "panic" ELSE "returned"
           /\ pgResult' = r.val
    /\ UNCHANGED pgParts

\* ---------------------------------------------------------- specifications
\* An operation that is not the one under study is not called.
IdleProjects == InitProjects
IdleGroups == InitGroups
IdleTopLevelGroups == tlInput = <<>> /\ tlDone = FALSE /\ tlResult = <<>>
IdleParentGroup ==
    /\ pgParts = [scheme |-> <<>>, host |-> Host, segs |-> <<>>]
    /\ pgOutcome = "none"
    /\ pgResult = <<>>

\* A call of Projects.
Init == InitProjects /\ IdleGroups /\ IdleTopLevelGroups /\ IdleParentGroup

Next ==
    \/ CallProjectCount /\ UNCHANGED <<groupVars, topVars, parentVars>>
    \/ Plan /\ UNCHANGED <<groupVars, topVars, parentVars>>
    \/ Spawn /\ UNCHANGED <<groupVars, topVars, parentVars>>
    \/ LoopExit /\ UNCHANGED <<groupVars, topVars, parentVars>>
    \/ WaitAndReturn /\ UNCHANGED <<groupVars, topVars, parentVars>>
    \/ \E t \in Pages :
         ListProjects(t) /\ UNCHANGED <<groupVars, topVars, parentVars>>
    \/ \E t \in Pages :
         Lock(t) /\ UNCHANGED <<groupVars, topVars, parentVars>>
    \/ \E t \in Pages :
         AppendLoad(t) /\ UNCHANGED <<groupVars, topVars, parentVars>>
    \/ \E t \in Pages :
         AppendStore(t) /\ UNCHANGED <<groupVars, topVars, parentVars>>
    \/ \E t \in Pages :
         Unlock(t) /\ UNCHANGED <<groupVars, topVars, parentVars>>
    \/ \E t \in Pages :
         Done(t) /\ UNCHANGED <<groupVars, topVars, parentVars>>
    \/ \E t \in Pages :
         Crash(t) /\ UNCHANGED <<groupVars, topVars, parentVars>>

Spec == Init /\ [][Next]_vars

\* A call of Groups.
InitG == IdleProjects /\ InitGroups /\ IdleTopLevelGroups /\ IdleParentGroup

NextG ==
    \/ CallGroupCount /\ UNCHANGED <<projVars, topVars, parentVars>>
    \/ GroupsIteration /\ UNCHANGED <<projVars, topVars, parentVars>>

SpecGroups == InitG /\ [][NextG]_vars

\* A call of TopLevelGroups.
InitT == IdleProjects /\ IdleGroups /\ InitTopLevelGroups /\ IdleParentGroup

NextT == CallTopLevelGroups /\ UNCHANGED <<projVars, groupVars, parentVars>>

SpecTopLevelGroups == InitT /\ [][NextT]_vars

\* A call of ParentGroup.
InitP == IdleProjects /\ IdleGroups /\ IdleTopLevelGroups /\ InitParentGroup

NextP == CallParentGroup /\ UNCHANGED <<projVars, groupVars, topVars>>

SpecParentGroup == InitP /\ [][NextP]_vars

\* ------------------------------------------------------------------ claims
\* The pages whose goroutine was started.
Launched == {spawned[i] : i \in 1..Len(spawned)}

Range(seq) == {seq[i] : i \in 1..Len(seq)}

NoDuplicates(seq) ==
    \A i, j \in 1..Len(seq) : i # j => seq[i] # seq[j]

RECURSIVE SumOfLens(_, _)
SumOfLens(f, S) ==
    IF S = {} THEN 0
    ELSE LET t == CHOOSE x \in S : TRUE
         IN  Len(f[t]) + SumOfLens(f, S \ {t})

ProjectsReturnedOk == pc = "returned" /\ retErr = "nil"

\* C1: when Projects has returned and every page fetch succeeded, the
\* returned slice holds exactly the items the page fetches returned: as
\* many as the pages' item counts add up to, the union of the pages as its
\* members, and no item twice, whatever the order the goroutines ran in.
C1_AllPagesMerged ==
    (ProjectsReturnedOk /\ \A t \in Launched : outcome[t] = "ok")
        => /\ Len(ret) = SumOfLens(p, Launched)
           /\ Range(ret) = UNION {Range(p[t]) : t \in Launched}
           /\ NoDuplicates(ret)

\* Three pages, all fetched, each with items, merged out of page order.
C1_Witness ==
    /\ ProjectsReturnedOk
    /\ Launched = 1..3
    /\ \A t \in Launched : outcome[t] = "ok" /\ Len(p[t]) >= 1
    /\ ret[1][1] = 3
    /\ ret[Len(ret)][1] = 1

\* C2: once Projects has returned, every page goroutine it started has
\* called wg.Done: none is still fetching, waiting for the lock, appending
\* or unlocking, whether its fetch succeeded or failed.
C2_JoinBarrier ==
    pc = "returned" => \A t \in Launched : tpc[t] \in {"done", "dying"}

\* Projects returned after one page failed and another succeeded.
C2_Witness ==
    /\ pc = "returned"
    /\ \E t, u \in Launched :
         /\ outcome[t] = "err_resp" /\ tpc[t] = "done"
         /\ outcome[u] = "ok" /\ tpc[u] = "done" /\ Len(p[u]) >= 1

\* C3: when Projects has returned after exactly one page k failed (here
\* with an error response, the failure its goroutine survives) and all the
\* others succeeded, the returned slice holds every item of the succeeding
\* pages and the returned error reports the failure of page k (it is not
\* nil).
C3_FailureSurfaced ==
    \A k \in Launched :
        (/\ pc = "returned"
         /\ outcome[k] = "err_resp"
         /\ \A t \in Launched \ {k} : outcome[t] = "ok")
            => /\ \A t \in Launched \ {k} : Range(p[t]) \subseteq Range(ret)
               /\ retErr # "nil"

\* C4: a failed page fetch, with or without a response object, is only
\* reported: its goroutine prints the error line and goes on to the
\* append, and the process does not die of it.
C4_FailureOnlyReported ==
    \A t \in Launched :
        outcome[t] \in {"err_resp", "err_nil"}
            => /\ ~crashed
               /\ tpc[t] \notin {"panicking", "dying"}
               /\ t \in logged

\* The header text is not a decimal number.
NonNumeric(text) ==
    text = <<>> \/ \E i \in 1..Len(text) : ~(\E d \in 1..10 : Digits[d] = text[i])

\* The count request was answered without X-Total, or with a text that is
\* no number.
CountUnavailable(resps) ==
    /\ resps # <<>>
    /\ ~resps[1].err
    /\ \/ resps[1].xtotal = <<>>
       \/ NonNumeric(resps[1].xtotal[1])

\* C5: when the count request's X-Total header is missing or not a number,
\* Projects returns an error to its caller and starts no page goroutine;
\* the process does not die.
C5_CountUnavailablePropagates ==
    CountUnavailable(countResp)
        => /\ ~crashed
           /\ pc = "returned"
           /\ retErr = "error"
           /\ spawned = <<>>

\* ceil(n / size), as the least k with k * size >= n.
CeilDiv(n, size) == CHOOSE k \in 0..n : k * size >= n /\ (k - 1) * size < n

\* C6: once the launch loop of Projects is over, exactly the goroutines for
\* pages 1..ceil(projectCount/100) have been started, each once; at no time
\* is a goroutine running for another page; and with a count of 0 Projects
\* returns an empty slice having started none.
C6_PlanLaunched ==
    LET k == CeilDiv(projectCount, 100)
    IN  /\ \A t \in Pages : t > k => tpc[t] = "unborn"
        /\ (pc \in {"wait", "returned"} /\ retErr # "error")
              => spawned = [i \in 1..k |-> i]
        /\ (ProjectsReturnedOk /\ projectCount = 0)
              => (spawned = <<>> /\ ret = <<>>)

\* A count of 101 took two goroutines, for pages 1 and 2.
C6_Witness ==
    /\ ProjectsReturnedOk
    /\ projectCount = 101
    /\ spawned = <<1, 2>>
    /\ \A t \in {1, 2} : tpc[t] = "done"

RECURSIVE ItemsOf(_)
ItemsOf(reqs) ==
    IF reqs = <<>> THEN <<>>
    ELSE ItemsOf(SubSeq(reqs, 1, Len(reqs) - 1)) \o reqs[Len(reqs)].items

\* C7: Groups asks for page 1 first and then for the next-page index of
\* each answer; while it loops no answer so far named next page 0; and
\* when it has returned without error the last answer, and only the last,
\* named next page 0, and the slice returned is the items of the pages
\* asked for, in that order. So the chain 1 -> 2 -> 3 -> 0 asks for
\* pages 1, 2, 3 and returns their items.
C7_CursorWalk ==
    LET n == Len(requests)
    IN  /\ n >= 1 => requests[1].page = 1
        /\ \A i \in 1..(n - 1) :
             /\ requests[i].next # 0
             /\ requests[i + 1].page = requests[i].next
        /\ (gpc = "loop" /\ n >= 1)
              => (requests[n].next # 0 /\ listPage = requests[n].next)
        /\ (gpc = "returned" /\ gRetErr = "nil")
              => /\ n >= 1
                 /\ requests[n].next = 0
                 /\ gRet = ItemsOf(requests)
        /\ (/\ gpc = "returned" /\ gRetErr = "nil" /\ n = 3
            /\ requests[1].next = 2 /\ requests[2].next = 3)
              => /\ [i \in 1..3 |-> requests[i].page] = <<1, 2, 3>>
                 /\ gRet = requests[1].items \o requests[2].items
                               \o requests[3].items

\* The chain 1 -> 2 -> 3 -> 0 walked to its end, every page with items.
C7_Witness ==
    /\ gpc = "returned" /\ gRetErr = "nil"
    /\ Len(requests) = 3
    /\ [i \in 1..3 |-> requests[i].next] = <<2, 3, 0>>
    /\ \A i \in 1..3 : Len(requests[i].items) = 2
    /\ Len(gRet) = 6

\* The full path with the host segment prefix taken off.
StripHost(path) ==
    LET h == Len(Host)
    IN  IF Len(path) >= h /\ SubSeq(path, 1, h) = Host
        THEN SubSeq(path, h + 1, Len(path))
        ELSE path

\* The first path component: the text up to the first "/", a leading "/"
\* set aside.
FirstComponent(path) ==
    LET rel  == IF path # <<>> /\ path[1] = "/" THEN Tail(path) ELSE path
        cuts == {i \in 1..Len(rel) : rel[i] = "/"}
    IN  IF cuts = {} THEN rel
        ELSE SubSeq(rel, 1, (CHOOSE i \in cuts : \A j \in cuts : i <= j) - 1)

RECURSIVE FirstSeen(_)
FirstSeen(list) ==
    IF list = <<>> THEN <<>>
    ELSE LET sofar == FirstSeen(SubSeq(list, 1, Len(list) - 1))
         IN  IF list[Len(list)] \in Range(sofar) THEN sofar
             ELSE Append(sofar, list[Len(list)])

\* C8: TopLevelGroups returns the first path component of each group's
\* full path after the host segment prefix is stripped, without
\* repetitions, in first-seen order: "host/A/x", "host/A/y", "host/B/z"
\* give "A", "B".
C8_TopLevelGroups ==
    tlDone =>
        tlResult = FirstSeen([i \in 1..Len(tlInput) |->
                                 FirstComponent(StripHost(tlInput[i]))])

\* C9: for a web URL whose path after the host has a second "/"-separated
\* component, ParentGroup returns that component, the first path segment
\* after the host ("https://host/GroupA/project1" gives "GroupA"); for a
\* URL without one it reports a MalformedURL error, and does not panic.
C9_ParentGroup ==
    (pgOutcome # "none" /\ pgParts.host = Host)
        => IF Len(pgParts.segs) >= 1
           THEN pgOutcome = "returned" /\ pgResult = pgParts.segs[1]
           ELSE pgOutcome = "MalformedURL"

\* The goroutines inside the append section (between Lock and Unlock).
InAppendSection == {t \in Pages : tpc[t] \in {"append", "store", "unlock"}}

\* C10: at most one page goroutine is in the append section, and it is the
\* one that holds the mutex; the mutex is held by nobody else: not by a
\* goroutine whose page request is in flight, not by one that has finished.
C10_MutualExclusion ==
    /\ Cardinality(InAppendSection) <= 1
    /\ \A t \in InAppendSection : mu = t
    /\ mu # 0 => mu \in InAppendSection
    /\ \A t \in Pages :
         (tpc[t] = "store" /\ ~crashed) => loaded[t] = projects

\* One goroutine is writing the slice while a second waits for the mutex
\* and a third has its request in flight.
C10_Witness ==
    \E t, u, v \in Pages :
        /\ tpc[t] = "store" /\ mu = t
        /\ tpc[u] = "lock"
        /\ tpc[v] = "list"

=============================================================================
